---- MODULE Spec2Model ----
(***************************************************************************)
(* Rock-paper-scissors tournament tracker (RPS_TOURNAMENT/app.py).         *)
(*                                                                         *)
(* Python strings are modelled as sequences of one-character strings, so   *)
(* that strip(), split(), join() and lower() are computed as the code      *)
(* computes them.  Python's None is the one-element sequence <<"None">>,   *)
(* whose element is not a character, so it differs from every string.      *)
(***************************************************************************)
EXTENDS Integers, Sequences, FiniteSets, TLC

VARIABLES
    LEADERBOARD,    \* dict name -> PlayerStats, as the sequence of its values in insertion order
    CURRENT_MATCH,  \* the module-level match dictionary
    last,           \* the last request served and the response it got
    threaded,       \* whether the server runs request handlers in threads of their own
    inflight        \* per handler thread: where a play_round request stands, and its locals

vars == <<LEADERBOARD, CURRENT_MATCH, last, threaded, inflight>>

----------------------------------------------------------------------------
\* Bounds of the model

\* CURRENT_MATCH["max_rounds"]: the source fixes it at 10 (app.py:35); the
\* handlers only ever compare against it, and the model plays shorter matches.
max_rounds == 3

\* Rounds recorded over the life of the process, over all matches.
MaxTotalRounds == 4

----------------------------------------------------------------------------
\* Strings

None == <<"None">>

Truthy(x) == x # None /\ x # <<>>

\* (x or "")
OrEmpty(x) == IF Truthy(x) THEN x ELSE <<>>

Whitespace == {" ", "\t"}

UpperCase == <<"A","B","C","D","E","F","G","H","I","J","K","L","M",
               "N","O","P","Q","R","S","T","U","V","W","X","Y","Z">>
LowerCase == <<"a","b","c","d","e","f","g","h","i","j","k","l","m",
               "n","o","p","q","r","s","t","u","v","w","x","y","z">>

LowerChar(c) ==
    IF \E i \in 1..26 : UpperCase[i] = c
    THEN LowerCase[CHOOSE i \in 1..26 : UpperCase[i] = c]
    ELSE c

\* str.lower()
lower(s) == [i \in 1..Len(s) |-> LowerChar(s[i])]

RECURSIVE lstrip(_)
lstrip(s) == IF s # <<>> /\ Head(s) \in Whitespace THEN lstrip(Tail(s)) ELSE s

RECURSIVE rstrip(_)
rstrip(s) ==
    IF s # <<>> /\ s[Len(s)] \in Whitespace
    THEN rstrip(SubSeq(s, 1, Len(s) - 1))
    ELSE s

\* str.strip()
strip(s) == rstrip(lstrip(s))

\* str.split(): the maximal runs of non-whitespace characters, in order.
\* cur is the run being read, out the runs already closed.
RECURSIVE SplitFrom(_, _, _)
SplitFrom(s, cur, out) ==
    IF s = <<>>
    THEN IF cur = <<>> THEN out ELSE Append(out, cur)
    ELSE IF Head(s) \in Whitespace
         THEN SplitFrom(Tail(s), <<>>, IF cur = <<>> THEN out ELSE Append(out, cur))
         ELSE SplitFrom(Tail(s), Append(cur, Head(s)), out)

split(s) == SplitFrom(s, <<>>, <<>>)

\* " ".join(words)
RECURSIVE join(_)
join(words) ==
    IF words = <<>> THEN <<>>
    ELSE IF Len(words) = 1 THEN words[1]
    ELSE words[1] \o <<" ">> \o join(Tail(words))

normalize_name(name) == join(split(strip(OrEmpty(name))))

----------------------------------------------------------------------------
\* Game constants

rock     == <<"r","o","c","k">>
paper    == <<"p","a","p","e","r">>
scissors == <<"s","c","i","s","s","o","r","s">>

MOVES == {rock, paper, scissors}

\* every move is taken to beat rock
beats_rock_only(m) == rock

\* the beats table with two entries exchanged
beats_exchanged(m) ==
    IF m = rock THEN paper
    ELSE IF m = paper THEN rock
    ELSE paper

\* lines 77-81
beats(m) ==
    IF m = rock THEN scissors
    ELSE IF m = paper THEN rock
    ELSE paper

ErrMoves    == "Moves must be rock, paper, or scissors."
ErrEmpty    == "Player name cannot be empty."
ErrPlayers  == "Invalid player names."
ErrNoMatch  == "No active match."
ErrFinished == "Match already finished. Start the next match."

\* rps_result: raised tells a ValueError was raised (error is its message);
\* otherwise value is 1, -1 or 0.
rps_result(move1, move2) ==
    LET m1 == lower(strip(OrEmpty(move1)))
        m2 == lower(strip(OrEmpty(move2)))
    IN  IF m1 \notin MOVES \/ m2 \notin MOVES
        THEN [raised |-> TRUE, error |-> ErrMoves, value |-> 0]
        ELSE IF m1 = m2
        THEN [raised |-> FALSE, error |-> "", value |-> 0]
        ELSE [raised |-> FALSE, error |-> "",
              value |-> IF beats(m1) = m2 THEN 1 ELSE -1]

----------------------------------------------------------------------------
\* PlayerStats and the leaderboard dictionary

PlayerStats(name) ==
    [name |-> name, score |-> 0, wins |-> 0, losses |-> 0, ties |-> 0,
     games_played |-> 0]

\* name in LEADERBOARD
Registered(lb, name) == \E i \in 1..Len(lb) : lb[i].name = name

\* LEADERBOARD[name].field += 1
Inc(lb, name, field) ==
    [i \in 1..Len(lb) |->
        IF lb[i].name = name THEN [lb[i] EXCEPT ![field] = @ + 1] ELSE lb[i]]

\* the record is created anew on every call
ensure_player_reset(lb, name) ==
    LET n == normalize_name(name)
    IN  IF ~Truthy(n)
        THEN [raised |-> TRUE, error |-> ErrEmpty, lb |-> lb, name |-> n]
        ELSE IF ~Registered(lb, n)
        THEN [raised |-> FALSE, error |-> "", lb |-> Append(lb, PlayerStats(n)), name |-> n]
        ELSE [raised |-> FALSE, error |-> "",
              lb |-> [i \in 1..Len(lb) |-> IF lb[i].name = n THEN PlayerStats(n) ELSE lb[i]],
              name |-> n]

\* ensure_player: raised tells a ValueError was raised; lb is the dictionary
\* after the call, a new key going last in insertion order.
ensure_player(lb, name) ==
    LET n == normalize_name(name)
    IN  IF ~Truthy(n)
        THEN [raised |-> TRUE, error |-> ErrEmpty, lb |-> lb, name |-> n]
        ELSE IF ~Registered(lb, n)
        THEN [raised |-> FALSE, error |-> "", lb |-> Append(lb, PlayerStats(n)), name |-> n]
        ELSE [raised |-> FALSE, error |-> "", lb |-> lb, name |-> n]

----------------------------------------------------------------------------
\* The match

match_winner(cm) ==
    IF cm.round < cm.max_rounds THEN None
    ELSE IF cm.p1_round_wins > cm.p2_round_wins THEN cm.p1
    ELSE IF cm.p2_round_wins > cm.p1_round_wins THEN cm.p2
    ELSE None

match_summary(cm) ==
    [active |-> cm.active,
     round |-> cm.round,
     max_rounds |-> cm.max_rounds,
     p1 |-> cm.p1,
     p2 |-> cm.p2,
     p1_round_wins |-> cm.p1_round_wins,
     p2_round_wins |-> cm.p2_round_wins,
     winner |-> match_winner(cm),
     overall_tie |-> (cm.round = cm.max_rounds /\ match_winner(cm) = None),
     locked_winner_as_p1 |-> cm.locked_winner_as_p1,
     round_history |-> cm.round_history]

\* A request and its response.  kind is "json" for a jsonify() body and
\* "unhandled" when an exception left the handler (no body of the handler's).
Response(op, a1, a2, kind, status, ok, error) ==
    [op |-> op, a1 |-> a1, a2 |-> a2, kind |-> kind, status |-> status,
     ok |-> ok, error |-> error]

\* the threads of the server that serve play_round requests
Threads == {"t1", "t2"}

\* a thread that serves no request
Idle ==
    [pc |-> "idle", p1_move |-> None, p2_move |-> None, outcome |-> 0,
     round_num |-> 0, p1 |-> None, p2 |-> None]

\* the module as loaded: no player, no match, no request in flight
Loaded ==
    /\ LEADERBOARD = <<>>
    /\ CURRENT_MATCH =
         [active |-> FALSE,
          round |-> 0,
          max_rounds |-> max_rounds,
          p1 |-> None,
          p2 |-> None,
          p1_round_wins |-> 0,
          p2_round_wins |-> 0,
          round_history |-> <<>>,
          locked_winner_as_p1 |-> FALSE]
    /\ last = Response("none", None, None, "json", 0, FALSE, "")
    /\ inflight = [t \in Threads |-> Idle]

\* one request is served at a time
Init == Loaded /\ threaded = FALSE

----------------------------------------------------------------------------
\* POST /api/player/register

api_register_player(name) ==
    LET e == ensure_player(LEADERBOARD, name)
    IN  /\ LEADERBOARD' = e.lb
        /\ last' = IF e.raised
                   THEN Response("register", name, None, "json", 400, FALSE, e.error)
                   ELSE Response("register", name, None, "json", 200, TRUE, "")
        /\ UNCHANGED CURRENT_MATCH

----------------------------------------------------------------------------
\* POST /api/game/start

\* the supplied p1 is kept whatever the previous match left
StartP1_supplied(cm, p1) == p1

\* lines 167-168: the carried-forward winner replaces the supplied p1
StartP1(cm, p1) ==
    IF Truthy(cm.p1) /\ cm.locked_winner_as_p1 THEN cm.p1 ELSE p1

\* equal names are let through
InvalidPlayers_empty_only(p1, p2) == ~Truthy(p1) \/ ~Truthy(p2)

\* line 170
InvalidPlayers(p1, p2) == ~Truthy(p1) \/ ~Truthy(p2) \/ p1 = p2

\* the second player's round-wins are not reset
StartUpdate_keeps_wins(cm, p1, p2) ==
    [cm EXCEPT !.active = TRUE,
               !.round = 0,
               !.p1 = p1,
               !.p2 = p2,
               !.p1_round_wins = 0,
               !.round_history = <<>>,
               !.locked_winner_as_p1 = FALSE]

\* the carry-forward flag is not cleared
StartUpdate_keeps_lock(cm, p1, p2) ==
    [cm EXCEPT !.active = TRUE,
               !.round = 0,
               !.p1 = p1,
               !.p2 = p2,
               !.p1_round_wins = 0,
               !.p2_round_wins = 0,
               !.round_history = <<>>]

\* the new match inherits the finished match's history
StartUpdate_keeps_history(cm, p1, p2) ==
    [cm EXCEPT !.active = TRUE,
               !.round = 0,
               !.p1 = p1,
               !.p2 = p2,
               !.p1_round_wins = 0,
               !.p2_round_wins = 0,
               !.locked_winner_as_p1 = FALSE]

\* lines 176-185
StartUpdate(cm, p1, p2) ==
    [cm EXCEPT !.active = TRUE,
               !.round = 0,
               !.p1 = p1,
               !.p2 = p2,
               !.p1_round_wins = 0,
               !.p2_round_wins = 0,
               !.round_history = <<>>,
               !.locked_winner_as_p1 = FALSE]

api_game_start(p1_in, p2_in) ==
    LET p1 == StartP1(CURRENT_MATCH, normalize_name(p1_in))
        p2 == normalize_name(p2_in)
        e1 == ensure_player(LEADERBOARD, p1)
        e2 == ensure_player(e1.lb, p2)
    IN  IF InvalidPlayers(p1, p2)
        THEN /\ last' = Response("start", p1_in, p2_in, "json", 400, FALSE, ErrPlayers)
             /\ UNCHANGED <<LEADERBOARD, CURRENT_MATCH>>
        ELSE IF e1.raised
        THEN /\ last' = Response("start", p1_in, p2_in, "unhandled", 500, FALSE, e1.error)
             /\ UNCHANGED <<LEADERBOARD, CURRENT_MATCH>>
        ELSE IF e2.raised
        THEN /\ last' = Response("start", p1_in, p2_in, "unhandled", 500, FALSE, e2.error)
             /\ LEADERBOARD' = e1.lb
             /\ UNCHANGED CURRENT_MATCH
        ELSE /\ LEADERBOARD' = e2.lb
             /\ CURRENT_MATCH' = StartUpdate(CURRENT_MATCH, p1, p2)
             /\ last' = Response("start", p1_in, p2_in, "json", 200, TRUE, "")

----------------------------------------------------------------------------
\* POST /api/game/play_round

\* a tie is scored as a point for both players
ApplyOutcome_tie_scores(cm, lb, outcome, p1, p2) ==
    IF outcome = 1
    THEN [cm |-> [cm EXCEPT !.p1_round_wins = @ + 1],
          lb |-> Inc(Inc(Inc(lb, p1, "score"), p1, "wins"), p2, "losses"),
          round_winner |-> p1]
    ELSE IF outcome = -1
    THEN [cm |-> [cm EXCEPT !.p2_round_wins = @ + 1],
          lb |-> Inc(Inc(Inc(lb, p2, "score"), p2, "wins"), p1, "losses"),
          round_winner |-> p2]
    ELSE [cm |-> cm,
          lb |-> Inc(Inc(Inc(Inc(lb, p1, "ties"), p2, "ties"), p1, "score"), p2, "score"),
          round_winner |-> None]

\* a win of the second mover books the loss on the second mover too
ApplyOutcome_loss_misbooked(cm, lb, outcome, p1, p2) ==
    IF outcome = 1
    THEN [cm |-> [cm EXCEPT !.p1_round_wins = @ + 1],
          lb |-> Inc(Inc(Inc(lb, p1, "score"), p1, "wins"), p2, "losses"),
          round_winner |-> p1]
    ELSE IF outcome = -1
    THEN [cm |-> [cm EXCEPT !.p2_round_wins = @ + 1],
          lb |-> Inc(Inc(Inc(lb, p2, "score"), p2, "wins"), p2, "losses"),
          round_winner |-> p2]
    ELSE [cm |-> cm,
          lb |-> Inc(Inc(lb, p1, "ties"), p2, "ties"),
          round_winner |-> None]

\* lines 212-227: the round-win counter, the statistics and the round's winner
ApplyOutcome(cm, lb, outcome, p1, p2) ==
    IF outcome = 1
    THEN [cm |-> [cm EXCEPT !.p1_round_wins = @ + 1],
          lb |-> Inc(Inc(Inc(lb, p1, "score"), p1, "wins"), p2, "losses"),
          round_winner |-> p1]
    ELSE IF outcome = -1
    THEN [cm |-> [cm EXCEPT !.p2_round_wins = @ + 1],
          lb |-> Inc(Inc(Inc(lb, p2, "score"), p2, "wins"), p1, "losses"),
          round_winner |-> p2]
    ELSE [cm |-> cm,
          lb |-> Inc(Inc(lb, p1, "ties"), p2, "ties"),
          round_winner |-> None]

\* lines 229-234
RoundRecord(round_num, p1_move, p2_move, round_winner) ==
    [round |-> round_num, p1_move |-> p1_move, p2_move |-> p2_move,
     round_winner |-> round_winner]

\* the match is closed one round early
IsFinalRound_early(cm, round_num) == round_num >= cm.max_rounds - 1

\* the match is closed one round late
IsFinalRound_late(cm, round_num) == round_num > cm.max_rounds

\* line 236
IsFinalRound(cm, round_num) == round_num = cm.max_rounds

\* the first player keeps the table whoever won
locked_p1_first(p1, winner) == p1

\* line 242
locked_p1(p1, winner) == IF winner = None THEN p1 ELSE winner

\* the match is closed but left active
Finalize_stays_active(cm, lb, p1, p2) ==
    LET winner == match_winner(cm)
    IN  [cm |-> [cm EXCEPT !.p1 = locked_p1(p1, winner),
                           !.p2 = None,
                           !.locked_winner_as_p1 = TRUE],
         lb |-> Inc(Inc(lb, p1, "games_played"), p2, "games_played")]

\* only the player who keeps the table gets the match counted
Finalize_one_player(cm, lb, p1, p2) ==
    LET cm1 == [cm EXCEPT !.active = FALSE]
        winner == match_winner(cm1)
    IN  [cm |-> [cm1 EXCEPT !.p1 = locked_p1(p1, winner),
                            !.p2 = None,
                            !.locked_winner_as_p1 = TRUE],
         lb |-> Inc(lb, locked_p1(p1, winner), "games_played")]

\* lines 237-246
Finalize(cm, lb, p1, p2) ==
    LET cm1 == [cm EXCEPT !.active = FALSE]
        winner == match_winner(cm1)
    IN  [cm |-> [cm1 EXCEPT !.p1 = locked_p1(p1, winner),
                            !.p2 = None,
                            !.locked_winner_as_p1 = TRUE],
         lb |-> Inc(Inc(lb, p1, "games_played"), p2, "games_played")]

\* lines 205-246, once both players' records are at hand
RecordRound(cm, lb, p1_move, p2_move, outcome) ==
    LET round_num == cm.round
        p1 == cm.p1
        p2 == cm.p2
        a  == ApplyOutcome(cm, lb, outcome, p1, p2)
        cm2 == [a.cm EXCEPT !.round_history =
                   Append(@, RoundRecord(round_num, p1_move, p2_move, a.round_winner))]
    IN  IF IsFinalRound(cm2, round_num)
        THEN Finalize(cm2, a.lb, p1, p2)
        ELSE [cm |-> cm2, lb |-> a.lb]

\* the round is counted before the moves are resolved
api_game_play_round_early(p1_move, p2_move) ==
    LET r   == rps_result(p1_move, p2_move)
        cm1 == [CURRENT_MATCH EXCEPT !.round = @ + 1]
        e1  == ensure_player(LEADERBOARD, cm1.p1)
        e2  == ensure_player(e1.lb, cm1.p2)
        out == RecordRound(cm1, e2.lb, p1_move, p2_move, r.value)
    IN  IF ~CURRENT_MATCH.active
        THEN /\ last' = Response("play_round", p1_move, p2_move, "json", 400, FALSE, ErrNoMatch)
             /\ UNCHANGED <<LEADERBOARD, CURRENT_MATCH>>
        ELSE IF CURRENT_MATCH.round >= CURRENT_MATCH.max_rounds
        THEN /\ last' = Response("play_round", p1_move, p2_move, "json", 400, FALSE, ErrFinished)
             /\ UNCHANGED <<LEADERBOARD, CURRENT_MATCH>>
        ELSE IF r.raised
        THEN /\ last' = Response("play_round", p1_move, p2_move, "unhandled", 500, FALSE, r.error)
             /\ CURRENT_MATCH' = cm1
             /\ UNCHANGED LEADERBOARD
        ELSE /\ CURRENT_MATCH' = out.cm
             /\ LEADERBOARD' = out.lb
             /\ last' = Response("play_round", p1_move, p2_move, "json", 200, TRUE, "")

api_game_play_round(p1_move, p2_move) ==
    LET r   == rps_result(p1_move, p2_move)
        cm1 == [CURRENT_MATCH EXCEPT !.round = @ + 1]
        e1  == ensure_player(LEADERBOARD, cm1.p1)
        e2  == ensure_player(e1.lb, cm1.p2)
        out == RecordRound(cm1, e2.lb, p1_move, p2_move, r.value)
    IN  IF ~CURRENT_MATCH.active
        THEN /\ last' = Response("play_round", p1_move, p2_move, "json", 400, FALSE, ErrNoMatch)
             /\ UNCHANGED <<LEADERBOARD, CURRENT_MATCH>>
        ELSE IF CURRENT_MATCH.round >= CURRENT_MATCH.max_rounds
        THEN /\ last' = Response("play_round", p1_move, p2_move, "json", 400, FALSE, ErrFinished)
             /\ UNCHANGED <<LEADERBOARD, CURRENT_MATCH>>
        ELSE IF r.raised
        THEN /\ last' = Response("play_round", p1_move, p2_move, "unhandled", 500, FALSE, r.error)
             /\ UNCHANGED <<LEADERBOARD, CURRENT_MATCH>>
        ELSE IF e1.raised \/ e2.raised
        THEN /\ last' = Response("play_round", p1_move, p2_move, "unhandled", 500, FALSE, ErrEmpty)
             /\ CURRENT_MATCH' = cm1
             /\ LEADERBOARD' = e1.lb
        ELSE /\ CURRENT_MATCH' = out.cm
             /\ LEADERBOARD' = out.lb
             /\ last' = Response("play_round", p1_move, p2_move, "json", 200, TRUE, "")

----------------------------------------------------------------------------
\* GET /api/leaderboard

\* (a["score"], a["wins"]) < (b["score"], b["wins"]), as Python orders tuples
KeyLess(a, b) == a.score < b.score \/ (a.score = b.score /\ a.wins < b.wins)

\* list(reversed(seq))
Reverse(seq) == [i \in 1..Len(seq) |-> seq[Len(seq) + 1 - i]]

\* x put into an ascending sequence behind every element not greater than it
Insert(sorted, x) ==
    LET n == Cardinality({ i \in 1..Len(sorted) : ~KeyLess(x, sorted[i]) })
    IN  SubSeq(sorted, 1, n) \o <<x>> \o SubSeq(sorted, n + 1, Len(sorted))

\* the stable ascending sort of list.sort: equal keys keep their order
RECURSIVE StableSort(_)
StableSort(seq) ==
    IF seq = <<>> THEN <<>>
    ELSE Insert(StableSort(SubSeq(seq, 1, Len(seq) - 1)), seq[Len(seq)])

\* sorted ascending, then the whole result reversed
by_score_ascending_reversed(players) == Reverse(StableSort(players))

\* line 128: sorted(players, key=..., reverse=True).  list.sort reverses the
\* list, sorts it stably ascending and reverses the result, which keeps
\* equal keys in their original order.
by_score(players) == Reverse(StableSort(Reverse(players)))

\* leaderboard_views; the by_name view is not modelled
leaderboard_views(lb) == [by_score |-> by_score(lb)]

api_leaderboard ==
    /\ last' = Response("leaderboard", None, None, "json", 200, TRUE, "")
    /\ UNCHANGED <<LEADERBOARD, CURRENT_MATCH>>

----------------------------------------------------------------------------
\* The requests the model sends

\* the names submitted to /api/game/start: blank, padded, with inner whitespace
RawNames ==
    { <<" ">>,
      <<" ","A","l"," ">>,
      <<"B","o","\t"," ","D","i">> }

\* the names submitted to /api/player/register: those, and a player who only registers
RegisterNames == RawNames \cup { <<"C","y">> }

\* one pair of moves per outcome, and the malformed submissions
RoundInputs ==
    { <<rock, scissors>>,
      <<<<"R","o","c","k"," ">>, paper>>,
      <<paper, <<" ","P","A","P","E","R">>>>,
      <<<<"l","i","z","a","r","d">>, rock>>,
      <<rock, None>> }

RECURSIVE RoundsOf(_)
RoundsOf(lb) ==
    IF lb = <<>> THEN 0
    ELSE Head(lb).wins + Head(lb).losses + Head(lb).ties + RoundsOf(Tail(lb))

\* every recorded round adds one to the counters of each of its two players
TotalRounds(lb) == RoundsOf(lb) \div 2

\* the request would record a round
Commits(p1_move, p2_move) ==
    /\ CURRENT_MATCH.active
    /\ CURRENT_MATCH.round < CURRENT_MATCH.max_rounds
    /\ ~rps_result(p1_move, p2_move).raised

Register ==
    /\ \E name \in RegisterNames : api_register_player(name)
    /\ UNCHANGED <<threaded, inflight>>

StartMatch ==
    /\ \E p1 \in RawNames, p2 \in RawNames : api_game_start(p1, p2)
    /\ UNCHANGED <<threaded, inflight>>

PlayRound ==
    /\ \E mv \in RoundInputs :
          /\ Commits(mv[1], mv[2]) => TotalRounds(LEADERBOARD) < MaxTotalRounds
          /\ api_game_play_round(mv[1], mv[2])
    /\ UNCHANGED <<threaded, inflight>>

Leaderboard ==
    /\ api_leaderboard
    /\ UNCHANGED <<threaded, inflight>>

Next == Register \/ StartMatch \/ PlayRound \/ Leaderboard

Spec == Init /\ [][Next]_vars

----------------------------------------------------------------------------
\* rps_result on its own: every pair of submitted moves is resolved once

\* submitted strings, each with the move it reads as once trimmed and lowercased
MoveCases ==
    { [raw |-> None,                                  norm |-> <<>>],
      [raw |-> <<>>,                                  norm |-> <<>>],
      [raw |-> rock,                                  norm |-> rock],
      [raw |-> paper,                                 norm |-> paper],
      [raw |-> scissors,                              norm |-> scissors],
      [raw |-> <<"R","o","c","k"," ">>,               norm |-> rock],
      [raw |-> <<" ","P","A","P","E","R">>,           norm |-> paper],
      [raw |-> <<"\t","S","c","i","s","s","o","r","s"," ">>, norm |-> scissors],
      [raw |-> <<"l","i","z","a","r","d">>,           norm |-> <<"l","i","z","a","r","d">>],
      [raw |-> <<"r","o","c","k","s">>,               norm |-> <<"r","o","c","k","s">>],
      [raw |-> <<"r","o"," ","c","k">>,               norm |-> <<"r","o"," ","c","k">>] }

RawMoves == { c.raw : c \in MoveCases }

Resolve(move1, move2) ==
    LET r == rps_result(move1, move2)
    IN  /\ last' = [op |-> "rps_result", a1 |-> move1, a2 |-> move2,
                    raised |-> r.raised, error |-> r.error, value |-> r.value]
        /\ UNCHANGED <<LEADERBOARD, CURRENT_MATCH, threaded, inflight>>

NextResolve == \E move1 \in RawMoves, move2 \in RawMoves : Resolve(move1, move2)

SpecResolve == Init /\ [][NextResolve]_vars

----------------------------------------------------------------------------
\* api_game_play_round served by threads that share CURRENT_MATCH and
\* LEADERBOARD without a lock.  A request runs in five steps, each atomic;
\* between two steps the other thread may run when the server is threaded.

AllIdle == \A t \in Threads : inflight[t].pc = "idle"

\* requests past their checks that have not booked their round yet
Unbooked == Cardinality({ t \in Threads : inflight[t].pc \in {"count", "number", "score"} })

\* the move pairs submitted to the racing handlers
RaceInputs ==
    { <<rock, scissors>>,
      <<paper, <<" ","P","A","P","E","R">>>>,
      <<<<"l","i","z","a","r","d">>, rock>> }

\* lines 193-203: the checks and the resolution of the moves
Begin(t, p1_move, p2_move) ==
    LET r == rps_result(p1_move, p2_move)
    IN  /\ inflight[t].pc = "idle"
        /\ threaded \/ AllIdle
        /\ TotalRounds(LEADERBOARD) + Unbooked < MaxTotalRounds
        /\ IF ~CURRENT_MATCH.active
           THEN /\ last' = Response("play_round", p1_move, p2_move, "json", 400, FALSE, ErrNoMatch)
                /\ UNCHANGED inflight
           ELSE IF CURRENT_MATCH.round >= CURRENT_MATCH.max_rounds
           THEN /\ last' = Response("play_round", p1_move, p2_move, "json", 400, FALSE, ErrFinished)
                /\ UNCHANGED inflight
           ELSE IF r.raised
           THEN /\ last' = Response("play_round", p1_move, p2_move, "unhandled", 500, FALSE, r.error)
                /\ UNCHANGED inflight
           ELSE /\ inflight' = [inflight EXCEPT ![t] =
                      [Idle EXCEPT !.pc = "count", !.p1_move = p1_move,
                                   !.p2_move = p2_move, !.outcome = r.value]]
                /\ UNCHANGED last
        /\ UNCHANGED <<LEADERBOARD, CURRENT_MATCH, threaded>>

\* line 205
Count(t) ==
    /\ inflight[t].pc = "count"
    /\ CURRENT_MATCH' = [CURRENT_MATCH EXCEPT !.round = @ + 1]
    /\ inflight' = [inflight EXCEPT ![t].pc = "number"]
    /\ UNCHANGED <<LEADERBOARD, last, threaded>>

\* line 206
Number(t) ==
    /\ inflight[t].pc = "number"
    /\ inflight' = [inflight EXCEPT ![t].pc = "score",
                                    ![t].round_num = CURRENT_MATCH.round]
    /\ UNCHANGED <<LEADERBOARD, CURRENT_MATCH, last, threaded>>

\* lines 208-234: the players, their statistics and the history record
Score(t) ==
    LET f  == inflight[t]
        p1 == CURRENT_MATCH.p1
        p2 == CURRENT_MATCH.p2
        e1 == ensure_player(LEADERBOARD, p1)
        e2 == ensure_player(e1.lb, p2)
        a  == ApplyOutcome(CURRENT_MATCH, e2.lb, f.outcome, p1, p2)
    IN  /\ f.pc = "score"
        /\ IF e1.raised \/ e2.raised
           THEN /\ last' = Response("play_round", f.p1_move, f.p2_move, "unhandled", 500, FALSE, ErrEmpty)
                /\ LEADERBOARD' = e1.lb
                /\ inflight' = [inflight EXCEPT ![t] = Idle]
                /\ UNCHANGED CURRENT_MATCH
           ELSE /\ LEADERBOARD' = a.lb
                /\ CURRENT_MATCH' = [a.cm EXCEPT !.round_history =
                      Append(@, RoundRecord(f.round_num, f.p1_move, f.p2_move, a.round_winner))]
                /\ inflight' = [inflight EXCEPT ![t].pc = "close", ![t].p1 = p1, ![t].p2 = p2]
                /\ UNCHANGED last
        /\ UNCHANGED threaded

\* lines 236-248: the end of the match, and the response
Close(t) ==
    LET f   == inflight[t]
        fin == Finalize(CURRENT_MATCH, LEADERBOARD, f.p1, f.p2)
    IN  /\ f.pc = "close"
        /\ IF IsFinalRound(CURRENT_MATCH, f.round_num)
           THEN /\ CURRENT_MATCH' = fin.cm
                /\ LEADERBOARD' = fin.lb
           ELSE UNCHANGED <<LEADERBOARD, CURRENT_MATCH>>
        /\ last' = Response("play_round", f.p1_move, f.p2_move, "json", 200, TRUE, "")
        /\ inflight' = [inflight EXCEPT ![t] = Idle]
        /\ UNCHANGED threaded

\* /api/game/start, served while no play_round request is in flight
RaceStart ==
    /\ AllIdle
    /\ \E p1 \in RawNames, p2 \in RawNames : api_game_start(p1, p2)
    /\ UNCHANGED <<threaded, inflight>>

RaceBegin == \E t \in Threads, mv \in RaceInputs : Begin(t, mv[1], mv[2])
RaceCount == \E t \in Threads : Count(t)
RaceNumber == \E t \in Threads : Number(t)
RaceScore == \E t \in Threads : Score(t)
RaceClose == \E t \in Threads : Close(t)

NextRace == RaceStart \/ RaceBegin \/ RaceCount \/ RaceNumber \/ RaceScore \/ RaceClose

\* the server either serves one request at a time or runs handlers in threads
InitRace == Loaded /\ threaded \in BOOLEAN

SpecRace == InitRace /\ [][NextRace]_vars

----------------------------------------------------------------------------
\* C10

Normalized(raw) == (CHOOSE c \in MoveCases : c.raw = raw).norm

\* rock > scissors, paper > rock, scissors > paper
Beats == { <<rock, scissors>>, <<paper, rock>>, <<scissors, paper>> }

\* C10: rps_result raises the invalid-move error iff a normalized move is
\* outside {rock, paper, scissors}, whatever the other move; otherwise it
\* returns 0 iff the normalized moves are equal, 1 iff the first beats the
\* second, and -1 in the remaining cases.
C10_ResolverMatchesReference ==
    last.op = "rps_result" =>
        LET n1 == Normalized(last.a1)
            n2 == Normalized(last.a2)
        IN  /\ last.raised <=> (n1 \notin MOVES \/ n2 \notin MOVES)
            /\ last.raised => last.error = ErrMoves
            /\ ~last.raised =>
                 /\ last.value = 0 <=> n1 = n2
                 /\ last.value = 1 <=> <<n1, n2>> \in Beats
                 /\ last.value = -1 <=> (n1 # n2 /\ <<n1, n2>> \notin Beats)

\* "Rock " against "paper": the second mover wins
C10_Witness ==
    /\ last.op = "rps_result"
    /\ last.a1 = <<"R","o","c","k"," ">>
    /\ last.a2 = paper
    /\ ~last.raised
    /\ last.value = -1

----------------------------------------------------------------------------
\* Reading a step off the response it leaves

\* the step served a /api/game/play_round request that recorded a round
PlayedRound == last'.op = "play_round" /\ last'.ok

\* the step served a /api/game/play_round request that recorded none
RejectedRound == last'.op = "play_round" /\ ~last'.ok

\* the step served a /api/game/start request that started a match
StartedMatch == last'.op = "start" /\ last'.ok

\* submitted names, each with the name it reads as once trimmed and its
\* whitespace runs collapsed
NameCases ==
    { [raw |-> <<" ">>,                     norm |-> <<>>],
      [raw |-> <<" ","A","l"," ">>,         norm |-> <<"A","l">>],
      [raw |-> <<"B","o","\t"," ","D","i">>, norm |-> <<"B","o"," ","D","i">>],
      [raw |-> <<"C","y">>,                 norm |-> <<"C","y">>] }

NormalName(raw) == (CHOOSE c \in NameCases : c.raw = raw).norm

\* rounds of the history won by name
RoundsWonBy(h, name) == Cardinality({ k \in 1..Len(h) : h[k].round_winner = name })

\* +1 when the condition holds
Plus(cond) == IF cond THEN 1 ELSE 0

----------------------------------------------------------------------------
\* C1

\* C1: once round = max_rounds, the summary's winner is the participant who
\* won strictly more rounds of the match, as p1 or as p2, and the summary
\* reports no winner (overall_tie) only when the round-win counters are equal.
C1_SummaryWinnerHasMoreRoundWins ==
    CURRENT_MATCH.round = CURRENT_MATCH.max_rounds =>
        LET s == match_summary(CURRENT_MATCH)
            h == CURRENT_MATCH.round_history
            Leads(name) ==
                \A i \in 1..Len(LEADERBOARD) :
                    LEADERBOARD[i].name # name =>
                        RoundsWonBy(h, name) > RoundsWonBy(h, LEADERBOARD[i].name)
        IN  /\ \A i \in 1..Len(LEADERBOARD) :
                  Leads(LEADERBOARD[i].name) => s.winner = LEADERBOARD[i].name
            /\ s.winner = None => s.p1_round_wins = s.p2_round_wins
            /\ s.overall_tie => s.p1_round_wins = s.p2_round_wins

----------------------------------------------------------------------------
\* C2

\* C2: a started match has round 0 and is active; each recorded round needs an
\* active match below max_rounds and adds one to round; the match is still
\* active after each round below max_rounds, inactive with max_rounds history
\* records after the max_rounds-th; nothing else moves round or active.
C2_MaxRoundsFinishMatch ==
    [][ /\ StartedMatch =>
              /\ CURRENT_MATCH'.round = 0
              /\ CURRENT_MATCH'.active
        /\ PlayedRound =>
              /\ CURRENT_MATCH.active
              /\ CURRENT_MATCH.round < max_rounds
              /\ CURRENT_MATCH'.round = CURRENT_MATCH.round + 1
              /\ CURRENT_MATCH'.round < max_rounds => CURRENT_MATCH'.active
              /\ CURRENT_MATCH'.round = max_rounds =>
                    /\ ~CURRENT_MATCH'.active
                    /\ Len(CURRENT_MATCH'.round_history) = max_rounds
        /\ ~StartedMatch /\ ~PlayedRound =>
              /\ CURRENT_MATCH'.round = CURRENT_MATCH.round
              /\ CURRENT_MATCH'.active = CURRENT_MATCH.active
      ]_vars

\* the max_rounds-th round of a match has just been recorded
C2_Witness ==
    /\ last.op = "play_round"
    /\ last.ok
    /\ CURRENT_MATCH.round = max_rounds
    /\ ~CURRENT_MATCH.active
    /\ Len(CURRENT_MATCH.round_history) = max_rounds

----------------------------------------------------------------------------
\* C3

\* C3: a recorded round adds 1 to p1_round_wins and to p1's score and wins and
\* to p2's losses when the first mover wins, the mirror image when the second
\* wins, and 1 to both players' ties on a tie; games_played moves only on the
\* final round; no other counter and no other player's record changes.
C3_RoundDeltas ==
    [][ PlayedRound =>
          LET p1 == CURRENT_MATCH.p1
              p2 == CURRENT_MATCH.p2
              n1 == Normalized(last'.a1)
              n2 == Normalized(last'.a2)
              first  == <<n1, n2>> \in Beats
              second == <<n2, n1>> \in Beats
              tie    == n1 = n2
              final  == CURRENT_MATCH'.round = max_rounds
          IN  /\ CURRENT_MATCH'.p1_round_wins = CURRENT_MATCH.p1_round_wins + Plus(first)
              /\ CURRENT_MATCH'.p2_round_wins = CURRENT_MATCH.p2_round_wins + Plus(second)
              /\ Len(LEADERBOARD') = Len(LEADERBOARD)
              /\ \A i \in 1..Len(LEADERBOARD) :
                    LET old == LEADERBOARD[i]
                        new == LEADERBOARD'[i]
                        won  == (first /\ old.name = p1) \/ (second /\ old.name = p2)
                        lost == (first /\ old.name = p2) \/ (second /\ old.name = p1)
                        drew == tie /\ old.name \in {p1, p2}
                    IN  /\ new.name = old.name
                        /\ new.score = old.score + Plus(won)
                        /\ new.wins = old.wins + Plus(won)
                        /\ new.losses = old.losses + Plus(lost)
                        /\ new.ties = old.ties + Plus(drew)
                        /\ new.games_played # old.games_played =>
                              final /\ old.name \in {p1, p2}
      ]_vars

\* the second mover has just won a round while a third player is registered
C3_Witness ==
    /\ last.op = "play_round"
    /\ last.ok
    /\ <<Normalized(last.a2), Normalized(last.a1)>> \in Beats
    /\ Len(LEADERBOARD) = 3
    /\ CURRENT_MATCH.active

----------------------------------------------------------------------------
\* C4

\* C4: the round that brings round to max_rounds leaves as p1 the player with
\* strictly more round-wins or, the round-wins being equal, the match's p1;
\* it leaves p2 absent and locked_winner_as_p1 true, on a tie as well.
C4_FinalRoundCarriesWinner ==
    [][ PlayedRound /\ CURRENT_MATCH'.round = max_rounds =>
          LET w1 == CURRENT_MATCH'.p1_round_wins
              w2 == CURRENT_MATCH'.p2_round_wins
          IN  /\ w1 > w2 => CURRENT_MATCH'.p1 = CURRENT_MATCH.p1
              /\ w2 > w1 => CURRENT_MATCH'.p1 = CURRENT_MATCH.p2
              /\ w1 = w2 => CURRENT_MATCH'.p1 = CURRENT_MATCH.p1
              /\ CURRENT_MATCH'.p2 = None
              /\ CURRENT_MATCH'.locked_winner_as_p1
      ]_vars

\* a match has just ended on equal round-wins, each player having won a round
C4_Witness ==
    /\ last.op = "play_round"
    /\ last.ok
    /\ CURRENT_MATCH.round = max_rounds
    /\ CURRENT_MATCH.p1_round_wins = CURRENT_MATCH.p2_round_wins
    /\ CURRENT_MATCH.p1_round_wins > 0
    /\ CURRENT_MATCH.locked_winner_as_p1
    /\ CURRENT_MATCH.p2 = None

----------------------------------------------------------------------------
\* C5

\* C5: with locked_winner_as_p1 true, a /api/game/start request that succeeds
\* starts a match whose p1 is the carried-forward player, whatever p1 was
\* supplied, and whose p2 is the supplied p2 normalized.
C5_CarriedPlayerIsP1 ==
    [][ StartedMatch /\ CURRENT_MATCH.locked_winner_as_p1 =>
          /\ CURRENT_MATCH'.p1 = CURRENT_MATCH.p1
          /\ CURRENT_MATCH'.p2 = NormalName(last'.a2)
      ]_vars

\* a match was started with a blank p1: the carried-forward player plays
C5_Witness ==
    /\ last.op = "start"
    /\ last.ok
    /\ NormalName(last.a1) = <<>>
    /\ CURRENT_MATCH.p1 = <<"A","l">>
    /\ CURRENT_MATCH.p2 = NormalName(last.a2)
    /\ CURRENT_MATCH.active

----------------------------------------------------------------------------
\* C6

\* C6: /api/game/start answers "Invalid player names." exactly when, the
\* carried-forward player standing in for p1 if there is one, a name is empty
\* or the two are equal; it then changes neither the match nor the registry;
\* otherwise it succeeds.
C6_InvalidPlayersExactly ==
    [][ last'.op = "start" =>
          LET p1 == IF CURRENT_MATCH.locked_winner_as_p1
                    THEN CURRENT_MATCH.p1
                    ELSE NormalName(last'.a1)
              p2 == NormalName(last'.a2)
              invalid == p1 = <<>> \/ p2 = <<>> \/ p1 = p2
              refused == /\ last'.kind = "json"
                         /\ ~last'.ok
                         /\ last'.status = 400
                         /\ last'.error = ErrPlayers
          IN  /\ invalid <=> refused
              /\ invalid => UNCHANGED <<LEADERBOARD, CURRENT_MATCH>>
              /\ ~invalid => last'.ok
      ]_vars

\* the carried-forward player was supplied as p2 and the request was refused
C6_Witness ==
    /\ last.op = "start"
    /\ ~last.ok
    /\ last.error = ErrPlayers
    /\ CURRENT_MATCH.locked_winner_as_p1
    /\ NormalName(last.a2) = CURRENT_MATCH.p1
    /\ NormalName(last.a1) \notin {<<>>, CURRENT_MATCH.p1}

----------------------------------------------------------------------------
\* C7

\* C7: a /api/game/play_round request that records no round leaves the match
\* dictionary and every player's record as they were.
C7_RejectedRoundChangesNothing ==
    [][ RejectedRound => UNCHANGED <<LEADERBOARD, CURRENT_MATCH>> ]_vars

\* an invalid move was submitted in the middle of a match
C7_Witness ==
    /\ last.op = "play_round"
    /\ ~last.ok
    /\ Normalized(last.a1) \notin MOVES
    /\ CURRENT_MATCH.active
    /\ CURRENT_MATCH.round > 0

----------------------------------------------------------------------------
\* C8

\* C8: an invalid move submitted to an active match is answered with the JSON
\* body ok=false, error "Moves must be rock, paper, or scissors.".
C8_InvalidMoveIsStructuredFailure ==
    ( /\ last.op = "play_round"
      /\ CURRENT_MATCH.active
      /\ (Normalized(last.a1) \notin MOVES \/ Normalized(last.a2) \notin MOVES) )
    => ( /\ last.kind = "json"
         /\ ~last.ok
         /\ last.error = ErrMoves )

----------------------------------------------------------------------------
\* C9

\* C9: games_played starts at 0 for a new record and moves only on the round
\* that brings round to max_rounds, by exactly 1 for each of the two players
\* of the match, whatever the rounds' outcomes.
C9_GamesPlayedCountsFinishedMatches ==
    [][ /\ Len(LEADERBOARD') >= Len(LEADERBOARD)
        /\ \A i \in 1..Len(LEADERBOARD') :
              IF i <= Len(LEADERBOARD)
              THEN /\ LEADERBOARD'[i].name = LEADERBOARD[i].name
                   /\ LEADERBOARD'[i].games_played =
                        LEADERBOARD[i].games_played
                        + Plus(/\ PlayedRound
                               /\ CURRENT_MATCH'.round = max_rounds
                               /\ LEADERBOARD[i].name \in {CURRENT_MATCH.p1, CURRENT_MATCH.p2})
              ELSE LEADERBOARD'[i].games_played = 0
      ]_vars

\* a player has finished one match without winning a round of it, after
\* abandoning another match
C9_Witness ==
    /\ last.op = "play_round"
    /\ last.ok
    /\ CURRENT_MATCH.round = max_rounds
    /\ \E i \in 1..Len(LEADERBOARD) :
          /\ LEADERBOARD[i].games_played = 1
          /\ LEADERBOARD[i].wins = 0
          /\ LEADERBOARD[i].wins + LEADERBOARD[i].losses + LEADERBOARD[i].ties > max_rounds

----------------------------------------------------------------------------
\* C11

\* C11: for valid moves a and b, rps_result(a, b) is the mirror image of
\* rps_result(b, a): 1 exactly when the other is -1, 0 exactly when it is 0.
C11_ResolverMirror ==
    (last.op = "rps_result" /\ ~last.raised) =>
        LET back == rps_result(last.a2, last.a1)
        IN  /\ ~back.raised
            /\ last.value = 1 <=> back.value = -1
            /\ last.value = -1 <=> back.value = 1
            /\ last.value = 0 <=> back.value = 0

\* " PAPER" against "Rock ": the first mover wins
C11_Witness ==
    /\ last.op = "rps_result"
    /\ last.a1 = <<" ","P","A","P","E","R">>
    /\ last.a2 = <<"R","o","c","k"," ">>
    /\ ~last.raised
    /\ last.value = 1

----------------------------------------------------------------------------
\* C14

\* C14: round is the length of round_history, the k-th record carries round
\* number k, round lies in 0..max_rounds and the two round-win counters
\* together do not exceed round.
C14_RoundCountsHistory ==
    /\ CURRENT_MATCH.round = Len(CURRENT_MATCH.round_history)
    /\ \A k \in 1..Len(CURRENT_MATCH.round_history) :
          CURRENT_MATCH.round_history[k].round = k
    /\ CURRENT_MATCH.round >= 0
    /\ CURRENT_MATCH.round <= max_rounds
    /\ CURRENT_MATCH.p1_round_wins + CURRENT_MATCH.p2_round_wins <= CURRENT_MATCH.round

\* a second match is under way, with a tied round on record
C14_Witness ==
    /\ CURRENT_MATCH.active
    /\ CURRENT_MATCH.round = 1
    /\ CURRENT_MATCH.round_history[1].round_winner = None
    /\ \E i \in 1..Len(LEADERBOARD) : LEADERBOARD[i].games_played = 1

----------------------------------------------------------------------------
\* C15

\* C15: no state has an active match with round >= max_rounds, no request is
\* answered "Match already finished. Start the next match.", and a
\* /api/game/play_round request refused while no match is active is answered
\* "No active match.".
C15_FinishedMatchIsInactive ==
    /\ ~(CURRENT_MATCH.active /\ CURRENT_MATCH.round >= max_rounds)
    /\ last.error # ErrFinished
    /\ (last.op = "play_round" /\ ~last.ok /\ ~CURRENT_MATCH.active) =>
          /\ last.kind = "json"
          /\ last.status = 400
          /\ last.error = ErrNoMatch

\* valid moves were submitted after the match had finished
C15_Witness ==
    /\ last.op = "play_round"
    /\ ~last.ok
    /\ Normalized(last.a1) \in MOVES
    /\ Normalized(last.a2) \in MOVES
    /\ CURRENT_MATCH.round = max_rounds
    /\ CURRENT_MATCH.locked_winner_as_p1

----------------------------------------------------------------------------
\* C20

RECURSIVE SumOf(_, _)
SumOf(lb, field) == IF lb = <<>> THEN 0 ELSE Head(lb)[field] + SumOf(Tail(lb), field)

\* C20: every registered player has score = wins, and the wins of all players
\* add up to the losses of all players.
C20_ScoreIsWins ==
    /\ \A i \in 1..Len(LEADERBOARD) : LEADERBOARD[i].score = LEADERBOARD[i].wins
    /\ SumOf(LEADERBOARD, "wins") = SumOf(LEADERBOARD, "losses")

\* a player has won, lost and tied rounds
C20_Witness ==
    \E i \in 1..Len(LEADERBOARD) :
        /\ LEADERBOARD[i].wins > 0
        /\ LEADERBOARD[i].losses > 0
        /\ LEADERBOARD[i].ties > 0

----------------------------------------------------------------------------
\* C12

\* C12: /api/player/register adds one all-zero record for a name not yet
\* registered, leaves the dictionary as it is for a registered name, is
\* refused with "Player name cannot be empty." for a blank name, and never
\* changes the match.
C12_EnsureIsGetOrCreate ==
    [][ last'.op = "register" =>
          LET n == NormalName(last'.a1)
          IN  /\ UNCHANGED CURRENT_MATCH
              /\ n = <<>> =>
                    /\ ~last'.ok
                    /\ last'.error = ErrEmpty
                    /\ UNCHANGED LEADERBOARD
              /\ (n # <<>> /\ \E i \in 1..Len(LEADERBOARD) : LEADERBOARD[i].name = n) =>
                    /\ last'.ok
                    /\ UNCHANGED LEADERBOARD
              /\ (n # <<>> /\ \A i \in 1..Len(LEADERBOARD) : LEADERBOARD[i].name # n) =>
                    /\ last'.ok
                    /\ LEADERBOARD' = Append(LEADERBOARD,
                          [name |-> n, score |-> 0, wins |-> 0, losses |-> 0,
                           ties |-> 0, games_played |-> 0])
      ]_vars

\* a player in the middle of a match, with rounds won, registered again
C12_Witness ==
    /\ last.op = "register"
    /\ last.ok
    /\ CURRENT_MATCH.active
    /\ NormalName(last.a1) = CURRENT_MATCH.p1
    /\ CURRENT_MATCH.p1_round_wins > 0
    /\ \E i \in 1..Len(LEADERBOARD) :
          /\ LEADERBOARD[i].name = CURRENT_MATCH.p1
          /\ LEADERBOARD[i].wins > 0

----------------------------------------------------------------------------
\* C16

\* C16: a /api/game/play_round request, recorded or refused, and a
\* /api/player/register request leave p1 and p2 as they were.
C16_OnlyStartChangesPlayers ==
    [][ last'.op \in {"play_round", "register"} =>
          /\ CURRENT_MATCH'.p1 = CURRENT_MATCH.p1
          /\ CURRENT_MATCH'.p2 = CURRENT_MATCH.p2
      ]_vars

\* C16 as amended: p1 or p2 change only in a successful start and in the
\* recorded round that brings round to max_rounds, which clears p2.
C16_PlayersChangeOnStartOrFinalRound ==
    [][ /\ (CURRENT_MATCH'.p1 # CURRENT_MATCH.p1 \/ CURRENT_MATCH'.p2 # CURRENT_MATCH.p2) =>
              StartedMatch \/ (PlayedRound /\ CURRENT_MATCH'.round = max_rounds)
        /\ (PlayedRound /\ CURRENT_MATCH'.round = max_rounds) =>
              /\ CURRENT_MATCH.p2 # None
              /\ CURRENT_MATCH'.p2 = None
      ]_vars

\* the final round was won by the second player, who is now p1
C16_Witness ==
    /\ last.op = "play_round"
    /\ last.ok
    /\ CURRENT_MATCH.round = max_rounds
    /\ CURRENT_MATCH.p2_round_wins > CURRENT_MATCH.p1_round_wins
    /\ CURRENT_MATCH.p2 = None
    /\ CURRENT_MATCH.round_history[max_rounds].round_winner = CURRENT_MATCH.p1

----------------------------------------------------------------------------
\* C17

\* C17: a successful start leaves an active match at round 0 with an empty
\* history, both round-win counters 0 and the carry-forward flag cleared; both
\* players are registered; every record registered before is unchanged and a
\* record it adds is all zero.
C17_StartResetsMatchOnly ==
    [][ StartedMatch =>
          /\ CURRENT_MATCH'.active
          /\ CURRENT_MATCH'.round = 0
          /\ CURRENT_MATCH'.round_history = <<>>
          /\ CURRENT_MATCH'.p1_round_wins = 0
          /\ CURRENT_MATCH'.p2_round_wins = 0
          /\ ~CURRENT_MATCH'.locked_winner_as_p1
          /\ \E i \in 1..Len(LEADERBOARD') : LEADERBOARD'[i].name = CURRENT_MATCH'.p1
          /\ \E i \in 1..Len(LEADERBOARD') : LEADERBOARD'[i].name = CURRENT_MATCH'.p2
          /\ Len(LEADERBOARD') >= Len(LEADERBOARD)
          /\ \A i \in 1..Len(LEADERBOARD') :
                IF i <= Len(LEADERBOARD)
                THEN LEADERBOARD'[i] = LEADERBOARD[i]
                ELSE /\ LEADERBOARD'[i].score = 0
                     /\ LEADERBOARD'[i].wins = 0
                     /\ LEADERBOARD'[i].losses = 0
                     /\ LEADERBOARD'[i].ties = 0
                     /\ LEADERBOARD'[i].games_played = 0
      ]_vars

\* a match was started over an unfinished one: rounds are on the players'
\* records and no match was ever finished
C17_Witness ==
    /\ last.op = "start"
    /\ last.ok
    /\ CURRENT_MATCH.round = 0
    /\ \E i \in 1..Len(LEADERBOARD) : LEADERBOARD[i].wins > 0
    /\ \A i \in 1..Len(LEADERBOARD) : LEADERBOARD[i].games_played = 0

----------------------------------------------------------------------------
\* C19

Carried ==
    /\ CURRENT_MATCH.locked_winner_as_p1 <=>
          (~CURRENT_MATCH.active /\ CURRENT_MATCH.round = max_rounds)
    /\ CURRENT_MATCH.locked_winner_as_p1 =>
          /\ CURRENT_MATCH.p2 = None
          /\ \E i \in 1..Len(LEADERBOARD) : LEADERBOARD[i].name = CURRENT_MATCH.p1

\* C19: locked_winner_as_p1 is true exactly when the match is inactive at
\* round max_rounds; p2 is then absent and p1 a registered player; the flag is
\* cleared by a successful start only.
C19_CarryForwardUntilStart ==
    [][ /\ Carried
        /\ Carried'
        /\ (CURRENT_MATCH.locked_winner_as_p1 /\ ~CURRENT_MATCH'.locked_winner_as_p1) =>
              StartedMatch
      ]_vars

\* a start was refused after the match finished and the flag is still set
C19_Witness ==
    /\ last.op = "start"
    /\ ~last.ok
    /\ CURRENT_MATCH.locked_winner_as_p1
    /\ CURRENT_MATCH.round = max_rounds

----------------------------------------------------------------------------
\* C13

\* place of a player in the dictionary's insertion order
Place(name) == CHOOSE i \in 1..Len(LEADERBOARD) : LEADERBOARD[i].name = name

\* out lists every registered player once, with the player's record
ListsEveryPlayerOnce(out) ==
    /\ Len(out) = Len(LEADERBOARD)
    /\ \A i \in 1..Len(LEADERBOARD) :
          Cardinality({ j \in 1..Len(out) : out[j] = LEADERBOARD[i] }) = 1

\* out is in descending (score, wins) order
Descending(out) ==
    \A i, j \in 1..Len(out) :
        i < j => \/ out[i].score > out[j].score
                 \/ (out[i].score = out[j].score /\ out[i].wins >= out[j].wins)

SameKey(a, b) == a.score = b.score /\ a.wins = b.wins

\* C13: by_score lists every registered player once in descending
\* (score, wins) order, players with the same (score, wins) in the reverse of
\* their insertion order.
C13_EqualKeysInReverseInsertionOrder ==
    last.op = "leaderboard" =>
        LET out == leaderboard_views(LEADERBOARD).by_score
        IN  /\ ListsEveryPlayerOnce(out)
            /\ Descending(out)
            /\ \A i, j \in 1..Len(out) :
                  (i < j /\ SameKey(out[i], out[j])) =>
                      Place(out[i].name) > Place(out[j].name)

\* C13 as amended: by_score lists every registered player once in descending
\* (score, wins) order, players with the same (score, wins) in their
\* insertion order.
C13_EqualKeysInInsertionOrder ==
    last.op = "leaderboard" =>
        LET out == leaderboard_views(LEADERBOARD).by_score
        IN  /\ ListsEveryPlayerOnce(out)
            /\ Descending(out)
            /\ \A i, j \in 1..Len(out) :
                  (i < j /\ SameKey(out[i], out[j])) =>
                      Place(out[i].name) < Place(out[j].name)

\* the leaderboard was read with two players on the same key registered
\* ahead of a player with a higher score
C13_Witness ==
    /\ last.op = "leaderboard"
    /\ Len(LEADERBOARD) = 3
    /\ SameKey(LEADERBOARD[1], LEADERBOARD[2])
    /\ LEADERBOARD[3].score > LEADERBOARD[1].score

----------------------------------------------------------------------------
\* C18

\* the round count is corrupted: round is past max_rounds, or it reached
\* max_rounds on a match still active and not closed
Corrupted ==
    \/ CURRENT_MATCH.round > max_rounds
    \/ /\ CURRENT_MATCH.round >= max_rounds
       /\ CURRENT_MATCH.active
       /\ ~CURRENT_MATCH.locked_winner_as_p1

\* C18: with the handlers serialized the round count is sound whenever no
\* request is in flight; it is two interleaved play_round handlers that
\* corrupt it.
C18_SerializedHandlersKeepRoundCount ==
    (~threaded /\ AllIdle) => ~Corrupted

\* two interleaved handlers have left round past max_rounds on a match that
\* is still active and was never closed: no games_played, no carry-forward
C18_Witness ==
    /\ threaded
    /\ AllIdle
    /\ CURRENT_MATCH.round > max_rounds
    /\ CURRENT_MATCH.active
    /\ ~CURRENT_MATCH.locked_winner_as_p1
    /\ \A i \in 1..Len(LEADERBOARD) : LEADERBOARD[i].games_played = 0

====
